---------------------------- MODULE Spec2Model ----------------------------
(*************************************************************************)
(* Model of the reconciliation, scoring and tide logic of                *)
(* scripts/surf_report.py, of a run of its main, and of                  *)
(* scripts/normalize_surf_data.py.                                       *)
(*                                                                       *)
(* Numbers (Python floats) are fixed-point integers in hundredths:       *)
(* 1.5 is 150.  Scores are integers in ten-thousandths, the precision of *)
(* round(score, 4).  Instants are whole hours.                           *)
(*************************************************************************)
EXTENDS Integers, Sequences, FiniteSets, TLC

VARIABLES
    pc,            \* position of the run being modelled
    raw,           \* select_metric_value: the metric's raw value
    source_order,  \* select_metric_value: the caller's preference order
    result,        \* select_metric_value: what the call produced
    hour,          \* score_hour: the normalized hour
    score,         \* score_hour: its score, in ten-thousandths
    anchor,        \* the anchor instant ("now"), in hours
    hours,         \* the normalized hours, in input order
    horizon,       \* the requested horizon
    current,       \* nearest_hour's result
    windows,       \* build_windows' result
    data,          \* the tide events of the payload
    extremes,      \* normalize_tides' result
    trend,         \* tide_trend_now's result
    byDay,         \* tides_by_day's result
    argv,          \* main: the arguments as argparse reads them
    env,           \* main: the environment variables that are set
    net,           \* main: the network requests made so far
    weather_hours, \* the raw hours fetch_weather returned
    last_error,    \* fetch_tides: the error of the last failed endpoint
    raised,        \* main: the exception that left parse_args or build_report
    stdout,        \* main: the report printed
    exit_code,     \* main: the process's exit code
    payload,       \* normalize_surf_data: the payload read
    processed      \* normalize_surf_data: what normalize(payload) produced

mvars == <<raw, source_order, result>>
svars == <<hour, score>>
hvars == <<hours, horizon, current, windows>>
tvars == <<data, extremes, trend, byDay>>
rvars == <<argv, env, net, weather_hours, last_error, raised, stdout, exit_code,
           payload, processed>>
vars == <<pc, raw, source_order, result, hour, score, anchor, hours, horizon,
          current, windows, data, extremes, trend, byDay, argv, env, net,
          weather_hours, last_error, raised, stdout, exit_code, payload,
          processed>>

-----------------------------------------------------------------------------
(* Python values as they arrive from json.loads.                          *)

None == [k |-> "none", v |-> 0]
Num(n) == [k |-> "num", v |-> n]
\* True: an int subclass, float(True) = 1.0
PyTrue == [k |-> "bool", v |-> 1]
\* a string that float() parses, such as "1.5"
NumStr(n) == [k |-> "str", v |-> n]
\* a string that float() rejects with ValueError
JunkStr == [k |-> "junk", v |-> 0]
\* a list or nested object: float() rejects it with TypeError
PyList == [k |-> "list", v |-> 0]
\* an int beyond the float range (10**400): float() raises OverflowError
HugeInt == [k |-> "huge", v |-> 0]

\* What a call produced when an exception left it.
Raised(exc) == [k |-> exc, v |-> 0]

\* float(x): the converted number, or the exception raised.
PyFloat(x) ==
    CASE x.k = "num"  -> Num(x.v)
      [] x.k = "bool" -> Num(100 * x.v)
      [] x.k = "str"  -> Num(x.v)
      [] x.k = "junk" -> Raised("ValueError")
      [] x.k = "huge" -> Raised("OverflowError")
      [] OTHER        -> Raised("TypeError")

-----------------------------------------------------------------------------
(* Time.  A time string is an ISO-8601 text: a local wall-clock time and  *)
(* a UTC offset, both in hours; the instant it names is their difference. *)

IsoStr(loc, off) == [k |-> "iso", loc |-> loc, off |-> off]
\* datetime.fromisoformat(value).astimezone(timezone.utc)
parse_time(t) == t.loc - t.off
\* dt.astimezone(timezone.utc).isoformat(), the offset written Z
iso_z(dt) == IsoStr(dt, 0)

-----------------------------------------------------------------------------
(* select_metric_value.                                                   *)

DEFAULT_SOURCE_ORDER == <<"sg", "icon", "gfs", "ecmwf", "dwd", "noaa">>

InSeq(x, s) == \E i \in 1..Len(s) : s[i] = x

\* A dict is the sequence of its items in insertion order, keys distinct.
HasKey(m, key) == \E i \in 1..Len(m) : m[i].key = key
Get(m, key) == m[CHOOSE i \in 1..Len(m) : m[i].key = key].val

\* The metric's raw value: a scalar, or a dict (items in m).
Scalar(x) == [k |-> x.k, v |-> x.v, m |-> <<>>]
Dict(m) == [k |-> "dict", v |-> 0, m |-> m]

\* source_order + [src for src in DEFAULT_SOURCE_ORDER if src not in source_order]
EffectiveOrder(order) ==
    order \o SelectSeq(DEFAULT_SOURCE_ORDER, LAMBDA src : ~InSeq(src, order))

\* except (TypeError, ValueError): continue
Caught(r) == r.k \in {"TypeError", "ValueError"}

\* for val in raw.values(): the first non-null value float() converts
RECURSIVE ScanValues(_, _)
ScanValues(m, i) ==
    IF i > Len(m) THEN None
    ELSE IF m[i].val.k = "none" THEN ScanValues(m, i + 1)
    ELSE LET r == PyFloat(m[i].val)
         IN  IF Caught(r) THEN ScanValues(m, i + 1) ELSE r

\* for key in ordered: the first present, non-null value float() converts,
\* and the scan of raw.values() when the loop ends without a return
RECURSIVE ScanOrdered(_, _, _)
ScanOrdered(m, ordered, i) ==
    IF i > Len(ordered) THEN ScanValues(m, 1)
    ELSE IF HasKey(m, ordered[i]) /\ Get(m, ordered[i]).k # "none"
         THEN LET r == PyFloat(Get(m, ordered[i]))
              IN  IF Caught(r) THEN ScanOrdered(m, ordered, i + 1) ELSE r
         ELSE ScanOrdered(m, ordered, i + 1)

select_metric_value(rawv, order) ==
    IF rawv.k = "none" THEN None
    ELSE IF rawv.k \in {"num", "bool", "huge"} THEN PyFloat(rawv)
    ELSE IF rawv.k # "dict" THEN None
    ELSE ScanOrdered(rawv.m, EffectiveOrder(order), 1)

-----------------------------------------------------------------------------
(* Inputs of select_metric_value.                                         *)

MaxEntries == 3
MaxPref == 2

\* source names a payload or a --source list may carry; "meteo" is in no default
SourceNames == {"icon", "gfs", "noaa", "meteo"}
ItemValues == {None, Num(150), Num(180), NumStr(210), JunkStr, PyList, HugeInt}
TopValues == {None, Num(150), PyTrue, NumStr(210), PyList, HugeInt}

SeqsUpTo(S, n) == UNION {[1..l -> S] : l \in 0..n}
DistinctKeys(m) == \A i, j \in 1..Len(m) : m[i].key = m[j].key => i = j
Dicts == {m \in SeqsUpTo([key : SourceNames, val : ItemValues], MaxEntries) :
            DistinctKeys(m)}
RawValues == {Scalar(x) : x \in TopValues} \cup {Dict(m) : m \in Dicts}

Idle == None
IdleMetric == raw = Scalar(None) /\ source_order = <<>> /\ result = Idle
IdleHours == hours = <<>> /\ horizon = "now" /\ current = Idle /\ windows = <<>>
IdleAnchor == anchor = 0
IdleTides == data = <<>> /\ extremes = <<>> /\ trend = "" /\ byDay = <<>>
IdleScore == hour = [k |-> "none"] /\ score = 0
IdleRun ==
    /\ argv = <<>> /\ env = {} /\ net = <<>> /\ weather_hours = <<>>
    /\ last_error = Idle /\ raised = Idle /\ stdout = <<>> /\ exit_code = Idle
    /\ payload = <<>> /\ processed = <<>>

InitMetric ==
    /\ pc = "metric"
    /\ raw \in RawValues
    /\ source_order \in SeqsUpTo(SourceNames, MaxPref)
    /\ result = Idle
    /\ IdleScore
    /\ IdleAnchor
    /\ IdleHours
    /\ IdleTides
    /\ IdleRun

SelectMetricValue ==
    /\ pc = "metric"
    /\ result' = select_metric_value(raw, source_order)
    /\ pc' = "metric_done"
    /\ UNCHANGED <<rvars, raw, source_order, svars, anchor, hvars, tvars>>

NextMetric == SelectMetricValue

SpecMetric == InitMetric /\ [][NextMetric]_vars

\* Is x a value float() converts?
Convertible(x) == x.k \in {"num", "bool", "str"}
\* the number a convertible value stands for, in hundredths
NumberOf(x) == IF x.k = "bool" THEN 100 * x.v ELSE x.v

\* The claims' effective order: the preference order, then the defaults
\* sg, icon, gfs, ecmwf, dwd, noaa that are not already in it.
ClaimOrder(order) ==
    order \o SelectSeq(<<"sg", "icon", "gfs", "ecmwf", "dwd", "noaa">>,
                       LAMBDA d : \A i \in 1..Len(order) : order[i] # d)
\* Does position i of the order name a present, non-null, convertible value?
Yields(m, ord, i) == HasKey(m, ord[i]) /\ Convertible(Get(m, ord[i]))
\* Does item i of the dict hold a non-null convertible value?
Holds(m, i) == Convertible(m[i].val)

\* C1: for a mapping, the result is the value of the first key of the
\* effective order that is present, non-null and convertible to a number.
C1_FirstInEffectiveOrder ==
    (pc = "metric_done" /\ raw.k = "dict") =>
        LET ord == ClaimOrder(source_order)
        IN  \A i \in 1..Len(ord) :
                (Yields(raw.m, ord, i) /\ \A j \in 1..(i - 1) : ~Yields(raw.m, ord, j))
                    => result = Num(NumberOf(Get(raw.m, ord[i])))

\* C2: the call never raises, returns a number or unknown (None), and
\* returns a bare number unchanged.
C2_NeverRaises ==
    pc = "metric_done" =>
        /\ result.k \in {"num", "none"}
        /\ raw.k = "num" => result = Num(raw.v)

\* C3: when no key of the effective order yields a value, the result is
\* the first non-null convertible value in insertion order, and unknown
\* only when the mapping holds no non-null convertible value at all.
C3_FallbackInsertionOrder ==
    (pc = "metric_done" /\ raw.k = "dict") =>
        LET ord == ClaimOrder(source_order)
            m == raw.m
        IN  /\ (\A i \in 1..Len(ord) : ~Yields(m, ord, i)) =>
                   \A i \in 1..Len(m) :
                       (Holds(m, i) /\ \A j \in 1..(i - 1) : ~Holds(m, j))
                           => result = Num(NumberOf(m[i].val))
            /\ (\A i \in 1..Len(m) : ~Holds(m, i)) <=> result = None

\* No value of the payload is an integer beyond the float range.
NoOverflow ==
    /\ raw.k # "huge"
    /\ \A i \in 1..Len(raw.m) : raw.m[i].val.k # "huge"

\* With float() raising OverflowError nowhere, C1, C2 and C3 hold.
MetricClaimsWithoutOverflow ==
    NoOverflow => C1_FirstInEffectiveOrder /\ C2_NeverRaises
                  /\ C3_FallbackInsertionOrder

-----------------------------------------------------------------------------
(* score_hour.  A metric of v hundredths contributes, in thirds of a      *)
(* ten-thousandth, three times its term; round(score, 4) then rounds the  *)
(* sum of the thirds to the nearest ten-thousandth (a third is never a    *)
(* half, so no tie arises).                                               *)

Max(a, b) == IF a >= b THEN a ELSE b
Min(a, b) == IF a <= b THEN a ELSE b
Abs(a) == IF a >= 0 THEN a ELSE -a

\* max(0.0, 1.2 - abs(wave - 1.2))
WaveTerm(x) == IF x.k = "none" THEN 0 ELSE 300 * Max(0, 120 - Abs(x.v - 120))
\* min(2.0, period / 6.0)
PeriodTerm(x) == IF x.k = "none" THEN 0 ELSE Min(60000, 50 * x.v)
\* max(0.0, 2.0 - wind / 3.0)
WindTerm(x) == IF x.k = "none" THEN 0 ELSE Max(0, 60000 - 100 * x.v)
\* max(0.0, 1.5 - gust / 4.0)
GustTerm(x) == IF x.k = "none" THEN 0 ELSE 3 * Max(0, 15000 - 25 * x.v)

\* round(score, 4)
Round4(thirds) == (thirds + 1) \div 3

score_hour(h) ==
    Round4(WaveTerm(h.waveHeightM) + PeriodTerm(h.swellPeriodS)
           + WindTerm(h.windSpeedMps) + GustTerm(h.windGustMps))

\* what a normalized hour may hold for a metric: unknown or any number
MetricValues == {None} \cup {Num(n) : n \in {-1200, -50, 0, 120, 450, 900, 2500}}

InitScore ==
    /\ pc = "score"
    /\ hour \in [time : {IsoStr(24, 0)}, waveHeightM : MetricValues,
                  swellHeightM : {None}, swellPeriodS : MetricValues,
                  swellDirectionDeg : {None}, windSpeedMps : MetricValues,
                  windDirectionDeg : {None}, windGustMps : MetricValues,
                  waterTemperatureC : {None}]
    /\ score = 0
    /\ IdleMetric
    /\ IdleAnchor
    /\ IdleHours
    /\ IdleTides
    /\ IdleRun

ScoreHour ==
    /\ pc = "score"
    /\ score' = score_hour(hour)
    /\ pc' = "score_done"
    /\ UNCHANGED <<rvars, hour, mvars, anchor, hvars, tvars>>

NextScore == ScoreHour

SpecScore == InitScore /\ [][NextScore]_vars

\* C5: the score of every normalized hour is non-negative (and finite),
\* and a missing metric contributes 0.
C5_ScoreNonNegative ==
    pc = "score_done" =>
        /\ score >= 0
        /\ (\A f \in {"waveHeightM", "swellPeriodS", "windSpeedMps", "windGustMps"} :
                hour[f] = None) => score = 0

\* With a non-negative swell period the score is non-negative.
ScoreNonNegativeForPeriodGeqZero ==
    (pc = "score_done" /\ (hour.swellPeriodS = None \/ hour.swellPeriodS.v >= 0))
        => score >= 0

-----------------------------------------------------------------------------
(* nearest_hour.                                                          *)

\* abs((parse_time(str(hour["time"])) - anchor).total_seconds()); every
\* normalized hour has the key "time" (normalize_hour sets it), holding a
\* time string
distance(h, a) == Abs(parse_time(h.time) - a)

\* a min that keeps the last of the equally near elements
RECURSIVE MinByDistanceLast(_, _, _, _)
MinByDistanceLast(hs, a, i, best) ==
    IF i > Len(hs) THEN best
    ELSE IF distance(hs[i], a) <= distance(hs[best], a)
         THEN MinByDistanceLast(hs, a, i + 1, i)
         ELSE MinByDistanceLast(hs, a, i + 1, best)

\* min(valid, key=distance): an element replaces the best so far only when
\* its key is strictly smaller
RECURSIVE MinByDistance(_, _, _, _)
MinByDistance(hs, a, i, best) ==
    IF i > Len(hs) THEN best
    ELSE IF distance(hs[i], a) < distance(hs[best], a)
         THEN MinByDistance(hs, a, i + 1, i)
         ELSE MinByDistance(hs, a, i + 1, best)

Found(h) == [k |-> "hour", v |-> h]

nearest_hour(hs, a) ==
    IF hs = <<>> THEN Raised("ApiError")
    ELSE Found(hs[MinByDistance(hs, a, 2, 1)])

-----------------------------------------------------------------------------
(* build_windows.                                                         *)

HORIZON_HOURS == ("now" :> 1) @@ ("24h" :> 24) @@ ("48h" :> 48) @@ ("72h" :> 72)
\* --horizon choices
Horizons == {"now", "24h", "48h", "72h"}
\* for label, hours in [("24h", 24), ("48h", 48), ("72h", 72)]
WINDOW_LENGTHS == <<[label |-> "24h", hours |-> 24],
                    [label |-> "48h", hours |-> 48],
                    [label |-> "72h", hours |-> 72]>>
\* sorted(...)[:3]
TOP_N == 3

\* a skip that also drops the window as long as the horizon
SkippedStrict(len, requested, hz) == len >= requested \/ hz = "now"

\* if hours > requested or horizon == "now": continue
Skipped(len, requested, hz) == len > requested \/ hz = "now"

\* a window test that forgets the window's end
InWindowOpenEnd(t, a, end) == a <= t

\* if anchor <= t <= end
InWindow(t, a, end) == a <= t /\ t <= end

\* entry = dict(h); entry["score"] = score_hour(h)
Entry(h) == ("score" :> score_hour(h)) @@ h

RECURSIVE InWindowEntries(_, _, _)
InWindowEntries(hs, a, end) ==
    IF hs = <<>> THEN <<>>
    ELSE LET rest == InWindowEntries(SubSeq(hs, 1, Len(hs) - 1), a, end)
             h == hs[Len(hs)]
         IN  IF InWindow(parse_time(h.time), a, end)
             THEN Append(rest, Entry(h)) ELSE rest

\* an unstable sort: an element goes before the elements it ties with
InsertBeforeTies(sorted, x) ==
    LET before == {i \in 1..Len(sorted) : sorted[i].score > x.score}
        n == Cardinality(before)
    IN  SubSeq(sorted, 1, n) \o <<x>> \o SubSeq(sorted, n + 1, Len(sorted))

\* list.sort places an element after every element it does not beat
InsertByScore(sorted, x) ==
    LET before == {i \in 1..Len(sorted) : sorted[i].score >= x.score}
        n == Cardinality(before)
    IN  SubSeq(sorted, 1, n) \o <<x>> \o SubSeq(sorted, n + 1, Len(sorted))

\* sorted(in_window, key=lambda x: x["score"], reverse=True)
RECURSIVE SortedByScore(_)
SortedByScore(s) ==
    IF s = <<>> THEN <<>>
    ELSE InsertByScore(SortedByScore(SubSeq(s, 1, Len(s) - 1)), s[Len(s)])

Top(s) == SubSeq(s, 1, Min(TOP_N, Len(s)))

Window(hs, a, len) ==
    [start |-> iso_z(a), end |-> iso_z(a + len),
     bestHours |-> Top(SortedByScore(InWindowEntries(hs, a, a + len)))]

build_windows(hs, a, hz) ==
    LET requested == HORIZON_HOURS[hz]
        made == {i \in 1..Len(WINDOW_LENGTHS) :
                    ~Skipped(WINDOW_LENGTHS[i].hours, requested, hz)}
        LengthOf(label) ==
            WINDOW_LENGTHS[CHOOSE i \in made : WINDOW_LENGTHS[i].label = label].hours
    IN  [label \in {WINDOW_LENGTHS[i].label : i \in made} |->
            Window(hs, a, LengthOf(label))]

MaxHours == 4

HourTimes == {IsoStr(24, 0), IsoStr(24, 1), IsoStr(49, 0), IsoStr(49, 1), IsoStr(97, 1)}
\* normalized hours: normalize_hour sets the time and all eight metrics
HourRecords ==
    [time : HourTimes, waveHeightM : {None, Num(120)}, swellHeightM : {None},
     swellPeriodS : {None}, swellDirectionDeg : {None}, windSpeedMps : {None},
     windDirectionDeg : {None}, windGustMps : {None}, waterTemperatureC : {None}]
HourAnchors == {24}

InitHours ==
    /\ pc = "hours"
    /\ anchor \in HourAnchors
    /\ hours \in SeqsUpTo(HourRecords, MaxHours)
    /\ horizon = "now"
    /\ current = Idle
    /\ windows = <<>>
    /\ IdleMetric
    /\ IdleScore
    /\ IdleTides
    /\ IdleRun

\* current = nearest_hour(normalized, anchor)
NearestHour ==
    /\ pc = "hours"
    /\ current' = nearest_hour(hours, anchor)
    /\ pc' = IF current'.k = "hour" THEN "nearest_done" ELSE "raised"
    /\ UNCHANGED <<rvars, mvars, svars, tvars, anchor, hours, horizon, windows>>

\* build_windows(normalized, anchor, args.horizon)
BuildWindows ==
    /\ pc = "nearest_done"
    /\ \E hz \in Horizons :
          /\ horizon' = hz
          /\ windows' = build_windows(hours, anchor, hz)
    /\ pc' = "windows_done"
    /\ UNCHANGED <<rvars, mvars, svars, tvars, anchor, hours, current>>

NextHours == NearestHour \/ BuildWindows

SpecHours == InitHours /\ [][NextHours]_vars

\* the instant of hour i, and its distance to the anchor
InstantOf(i) == hours[i].time.loc - hours[i].time.off
DistanceOf(i) == Abs(InstantOf(i) - anchor)

\* C6: for a non-empty sequence nearest_hour returns an element at minimal
\* absolute distance to the anchor, the earliest in input order among the
\* equally distant ones.
C6_NearestFirstMinimal ==
    (pc # "hours" /\ hours # <<>>) =>
        \E i \in 1..Len(hours) :
            /\ current = Found(hours[i])
            /\ \A j \in 1..Len(hours) : DistanceOf(j) >= DistanceOf(i)
            /\ \A j \in 1..(i - 1) : DistanceOf(j) > DistanceOf(i)

\* Two different hours are equally near and the earlier one was returned.
C6_Witness ==
    /\ pc = "nearest_done"
    /\ \E i, j \in 1..Len(hours) :
          /\ i < j
          /\ hours[i] # hours[j]
          /\ DistanceOf(i) = DistanceOf(j)
          /\ \A n \in 1..Len(hours) : DistanceOf(n) >= DistanceOf(i)
          /\ current = Found(hours[i])

\* the length, in hours, that a window label or a horizon names
LengthNamed(label) ==
    CASE label = "24h" -> 24 [] label = "48h" -> 48 [] label = "72h" -> 72
      [] label = "now" -> 0

\* the positions of the hours inside the closed interval of a window
HoursInside(label) ==
    {i \in 1..Len(hours) :
        anchor <= InstantOf(i) /\ InstantOf(i) <= anchor + LengthNamed(label)}

\* C7: bestHours has at most 3 entries, each within [anchor, anchor + length].
C7_AtMostThreeInsideWindow ==
    pc = "windows_done" =>
        \A label \in DOMAIN windows :
            LET best == windows[label].bestHours
            IN  /\ Len(best) <= 3
                /\ \A n \in 1..Len(best) :
                      LET t == best[n].time.loc - best[n].time.off
                      IN  anchor <= t /\ t <= anchor + LengthNamed(label)

\* One window kept 3 of more than 3 hours inside it, and a window that
\* kept some hour had another hour of the input past its end.
C7_Witness ==
    /\ pc = "windows_done"
    /\ \E label \in DOMAIN windows :
          /\ Cardinality(HoursInside(label)) > 3
          /\ Len(windows[label].bestHours) = 3
    /\ \E label \in DOMAIN windows :
          /\ windows[label].bestHours # <<>>
          /\ \E i \in 1..Len(hours) : InstantOf(i) > anchor + LengthNamed(label)

\* the place of hour i among the hours inside the window: one more than
\* the number of hours that score higher, or score the same and come earlier
RankOf(i, label) ==
    1 + Cardinality({j \in HoursInside(label) :
                        \/ score_hour(hours[j]) > score_hour(hours[i])
                        \/ /\ score_hour(hours[j]) = score_hour(hours[i])
                           /\ j < i})

\* C8: bestHours is the first min(3, n) of the n hours inside the window by
\* descending score, equal scores in input order.
C8_TopThreeStableByScore ==
    pc = "windows_done" =>
        \A label \in DOMAIN windows :
            LET best == windows[label].bestHours
                inside == HoursInside(label)
            IN  /\ Len(best) = Min(3, Cardinality(inside))
                /\ \A i \in inside :
                      LET rank == RankOf(i, label)
                      IN  rank <= 3 =>
                              /\ best[rank].time = hours[i].time
                              /\ best[rank].waveHeightM = hours[i].waveHeightM
                              /\ best[rank].score = score_hour(hours[i])

\* A window left out an hour, ranked a later hour above an earlier one of
\* lower score, and kept two different hours of equal score in input order.
C8_Witness ==
    /\ pc = "windows_done"
    /\ \E label \in DOMAIN windows :
          LET best == windows[label].bestHours
              inside == HoursInside(label)
          IN  /\ Cardinality(inside) > 3
              /\ \E i, j \in inside :
                    /\ i < j
                    /\ score_hour(hours[i]) < score_hour(hours[j])
                    /\ RankOf(j, label) < RankOf(i, label)
              /\ \E i, j \in inside :
                    /\ i < j
                    /\ hours[i] # hours[j]
                    /\ score_hour(hours[i]) = score_hour(hours[j])
                    /\ RankOf(j, label) <= 3
                    /\ best[RankOf(i, label)].time = hours[i].time
                    /\ best[RankOf(j, label)].time = hours[j].time

\* C9: a window exists for exactly the labels 24h, 48h, 72h no longer than
\* the requested horizon, none for the horizon now; each starts at the
\* anchor and ends at anchor + length, whatever hours fall inside it.
C9_WindowsWithinHorizon ==
    pc = "windows_done" =>
        /\ DOMAIN windows =
              IF horizon = "now" THEN {}
              ELSE {l \in {"24h", "48h", "72h"} : LengthNamed(l) <= LengthNamed(horizon)}
        /\ \A label \in DOMAIN windows :
              /\ windows[label].start = IsoStr(anchor, 0)
              /\ windows[label].end = IsoStr(anchor + LengthNamed(label), 0)

\* The 48h horizon made the 24h and 48h windows, the 24h one with no hour
\* inside it although hours were given.
C9_Witness ==
    /\ pc = "windows_done"
    /\ horizon = "48h"
    /\ hours # <<>>
    /\ DOMAIN windows = {"24h", "48h"}
    /\ windows["24h"].bestHours = <<>>
    /\ windows["48h"].bestHours # <<>>

-----------------------------------------------------------------------------
(* Tides.  A tide event's time is a time string, a text that is no ISO    *)
(* time ("bad"), or missing ("none").                                     *)

NoTime == [k |-> "none", loc |-> 0, off |-> 0]
BadTime == [k |-> "bad", loc |-> 0, off |-> 0]

\* a <= b as Python compares the two strings: ISO texts of one layout
\* compare by local time, then by the offset written after it (+00:00
\* before +02:00), and sort before a text that starts with a letter
StrLeq(a, b) ==
    IF a.k = "iso" /\ b.k = "iso"
    THEN a.loc < b.loc \/ (a.loc = b.loc /\ a.off <= b.off)
    ELSE a.k = "iso" \/ b.k = "bad"

\* float(height) if height is not None else None, TypeError and ValueError
\* caught
HeightValue(height) ==
    IF height.k = "none" THEN None
    ELSE LET r == PyFloat(height) IN IF Caught(r) THEN None ELSE r

\* out.sort(key=lambda x: x["time"]) places an element after every element
\* whose key is not greater
InsertByTime(sorted, x) ==
    LET n == Cardinality({i \in 1..Len(sorted) : StrLeq(sorted[i].time, x.time)})
    IN  SubSeq(sorted, 1, n) \o <<x>> \o SubSeq(sorted, n + 1, Len(sorted))

RECURSIVE SortedByTime(_)
SortedByTime(s) ==
    IF s = <<>> THEN <<>>
    ELSE InsertByTime(SortedByTime(SubSeq(s, 1, Len(s) - 1)), s[Len(s)])

\* if not t: continue
Kept(item) == item.time.k # "none"

RECURSIVE Appended(_)
Appended(items) ==
    IF items = <<>> THEN <<>>
    ELSE LET rest == Appended(SubSeq(items, 1, Len(items) - 1))
             item == items[Len(items)]
         IN  IF Kept(item)
             THEN Append(rest, [time |-> item.time, type |-> item.type,
                                heightM |-> HeightValue(item.height)])
             ELSE rest

\* The sorted list, or the exception that float(height) let through.
normalize_tides(items) ==
    LET out == Appended(items)
    IN  IF \E i \in 1..Len(out) : out[i].heightM.k = "OverflowError"
        THEN [exc |-> "OverflowError", out |-> <<>>]
        ELSE [exc |-> "", out |-> SortedByTime(out)]

\* str(e.get("type", "")).lower()
Lower(type) ==
    CASE type = "High" -> "high" [] type = "Low" -> "low" [] OTHER -> type

\* parse_time(str(e["time"])) raises for a text that is no ISO time
Parses(t) == t.k = "iso"

\* prev_item / next_item: None, or the lower-cased type of an event
NoItem == [found |-> FALSE, kind |-> ""]
Item(kind) == [found |-> TRUE, kind |-> kind]

\* the loop over parsed: prev_item is the last event seen with dt <= anchor,
\* next_item the first seen with dt > anchor
RECURSIVE ScanTides(_, _, _, _, _)
ScanTides(ext, a, i, prev, next) ==
    IF i > Len(ext) THEN [prev |-> prev, next |-> next]
    ELSE IF ~Parses(ext[i].time) THEN ScanTides(ext, a, i + 1, prev, next)
    ELSE IF parse_time(ext[i].time) <= a
         THEN ScanTides(ext, a, i + 1, Item(Lower(ext[i].type)), next)
    ELSE IF ~next.found
         THEN ScanTides(ext, a, i + 1, prev, Item(Lower(ext[i].type)))
    ELSE ScanTides(ext, a, i + 1, prev, next)

tide_trend_now(ext, a) ==
    LET scan == ScanTides(ext, a, 1, NoItem, NoItem)
    IN  IF ~(scan.prev.found /\ scan.next.found) THEN "unknown"
        ELSE IF scan.prev.kind = "low" /\ scan.next.kind = "high" THEN "rising"
        ELSE IF scan.prev.kind = "high" /\ scan.next.kind = "low" THEN "falling"
        ELSE "unknown"

\* a day bucket that files every event under the date its text shows
LocalDayOf(t) == t.loc \div 24

\* parse_time(str(e["time"])).date(): the UTC calendar day
DayOf(t) == parse_time(t) \div 24

RECURSIVE TidesByDayFrom(_, _, _)
TidesByDayFrom(ext, i, out) ==
    IF i > Len(ext) THEN out
    ELSE IF ~Parses(ext[i].time) THEN TidesByDayFrom(ext, i + 1, out)
    ELSE LET day == DayOf(ext[i].time)
             \* out.setdefault(day, {"high": [], "low": []})
             withDay == IF day \in DOMAIN out THEN out
                        ELSE out @@ (day :> [high |-> <<>>, low |-> <<>>])
             kind == Lower(ext[i].type)
             entry == [time |-> ext[i].time, heightM |-> ext[i].heightM]
         IN  IF kind \notin {"high", "low"}
             THEN TidesByDayFrom(ext, i + 1, withDay)
             ELSE TidesByDayFrom(ext, i + 1,
                     [withDay EXCEPT ![day][kind] = Append(@, entry)])

tides_by_day(ext) == TidesByDayFrom(ext, 1, <<>>)

MaxTides == 3

TideTimes == {NoTime, BadTime, IsoStr(24, 0), IsoStr(24, 2), IsoStr(26, 0)}
TideTypes == {"high", "Low", "spring"}
\* a height the provider sends, and the malformed heights, which the
\* payloads drawn here carry on high events only
TideHeights == {Num(130)}
MalformedHeights == {JunkStr, HugeInt}
TideItems == [time : TideTimes, type : TideTypes, height : TideHeights]
             \cup [time : TideTimes, type : {"high"}, height : MalformedHeights]
TideAnchors == {24}

InitTide ==
    /\ pc = "tides"
    /\ anchor \in TideAnchors
    /\ data \in SeqsUpTo(TideItems, MaxTides)
    /\ extremes = <<>>
    /\ trend = ""
    /\ byDay = <<>>
    /\ IdleMetric
    /\ IdleScore
    /\ IdleHours
    /\ IdleRun

\* extremes = normalize_tides(tide_data)
NormalizeTides ==
    /\ pc = "tides"
    /\ LET r == normalize_tides(data)
       IN  /\ extremes' = r.out
           /\ pc' = IF r.exc = "" THEN "normalized" ELSE "raised"
    /\ UNCHANGED <<rvars, mvars, svars, hvars, anchor, data, trend, byDay>>

\* "trendNow": tide_trend_now(extremes, anchor)
TideTrendNow ==
    /\ pc = "normalized"
    /\ trend' = tide_trend_now(extremes, anchor)
    /\ pc' = "trend_done"
    /\ UNCHANGED <<rvars, mvars, svars, hvars, anchor, data, extremes, byDay>>

\* "byDay": tides_by_day(extremes)
TidesByDay ==
    /\ pc = "trend_done"
    /\ byDay' = tides_by_day(extremes)
    /\ pc' = "tides_done"
    /\ UNCHANGED <<rvars, mvars, svars, hvars, anchor, data, extremes, trend>>

NextTide == NormalizeTides \/ TideTrendNow \/ TidesByDay

SpecTide == InitTide /\ [][NextTide]_vars

\* the extremes whose time is a time, their instants and lower-cased types
Timed == {i \in 1..Len(extremes) : extremes[i].time.k = "iso"}
TideInstant(i) == extremes[i].time.loc - extremes[i].time.off
TideKind(i) ==
    CASE extremes[i].type \in {"high", "High"} -> "high"
      [] extremes[i].type \in {"low", "Low"} -> "low"
      [] OTHER -> "other"

\* the nearest preceding extremes (latest time <= anchor) and the nearest
\* following ones (earliest time > anchor); several when times coincide
NearestPreceding ==
    {i \in Timed : /\ TideInstant(i) <= anchor
                   /\ \A j \in Timed : TideInstant(j) <= anchor
                                           => TideInstant(j) <= TideInstant(i)}
NearestFollowing ==
    {i \in Timed : /\ TideInstant(i) > anchor
                   /\ \A j \in Timed : TideInstant(j) > anchor
                                           => TideInstant(j) >= TideInstant(i)}
TrendOf(p, n) ==
    IF TideKind(p) = "low" /\ TideKind(n) = "high" THEN "rising"
    ELSE IF TideKind(p) = "high" /\ TideKind(n) = "low" THEN "falling"
    ELSE "unknown"

\* C4: the trend is rising exactly when the nearest preceding extreme is a
\* low and the nearest following one a high, falling in the mirrored case,
\* unknown otherwise (a missing neighbour, equal types, an empty list).
C4_TrendFromNearestExtremes ==
    pc \in {"trend_done", "tides_done"} =>
        IF NearestPreceding = {} \/ NearestFollowing = {}
        THEN trend = "unknown"
        ELSE \E p \in NearestPreceding, n \in NearestFollowing : trend = TrendOf(p, n)

\* The extremes are listed in the order of their instants.
Chronological ==
    \A i, j \in Timed : i < j => TideInstant(i) <= TideInstant(j)

\* On a list in the order of its instants the trend is that of C4.
TrendFromNearestWhenChronological ==
    Chronological => C4_TrendFromNearestExtremes

\* the entries {time, heightM} of the extremes of one UTC day and one
\* lower-cased type, in list order
RECURSIVE EntriesOf(_, _, _)
EntriesOf(day, kind, n) ==
    IF n = 0 THEN <<>>
    ELSE IF /\ n \in Timed
            /\ TideInstant(n) \div 24 = day
            /\ TideKind(n) = kind
         THEN Append(EntriesOf(day, kind, n - 1),
                     [time |-> extremes[n].time, heightM |-> extremes[n].heightM])
         ELSE EntriesOf(day, kind, n - 1)

\* the payload's events that carry a time
WithTime == {i \in 1..Len(data) : data[i].time.k # "none"}

\* C10: each day bucket has only the keys high and low; a day's high (low)
\* list holds the extremes of that UTC day whose lower-cased type is high
\* (low), in first-seen order; an extreme of another type is in no bucket
\* and still in the flat list normalize_tides returned.
C10_DayBucketsHighLowOnly ==
    pc = "tides_done" =>
        /\ \A day \in DOMAIN byDay :
              /\ DOMAIN byDay[day] = {"high", "low"}
              /\ byDay[day].high = EntriesOf(day, "high", Len(extremes))
              /\ byDay[day].low = EntriesOf(day, "low", Len(extremes))
        /\ Len(extremes) = Cardinality(WithTime)
        /\ \A i \in WithTime :
              \E j \in 1..Len(extremes) :
                  /\ extremes[j].time = data[i].time
                  /\ extremes[j].type = data[i].type

\* A day holds two highs in list order, one of them dated on the next day
\* in its own text, while an extreme of an unrecognized type of that day is
\* in the flat list.
C10_Witness ==
    /\ pc = "tides_done"
    /\ \E day \in DOMAIN byDay :
          /\ Len(byDay[day].high) = 2
          /\ \E n \in 1..2 : byDay[day].high[n].time.loc \div 24 # day
          /\ \E i \in Timed : /\ TideKind(i) = "other"
                              /\ TideInstant(i) \div 24 = day

-----------------------------------------------------------------------------
(* JSON objects and HTTP responses.  A JSON object is a function from the *)
(* keys it carries; a list is wrapped so that isinstance(x, list) can be  *)
(* asked of a value.                                                      *)

JList(items) == [k |-> "list", items |-> items]
\* a JSON value that is no list (a string, a number, null, an object)
NotAList == [k |-> "other", items |-> <<>>]

\* d.get(key, default)
GetOr(d, key, default) == IF key \in DOMAIN d THEN d[key] ELSE default

\* http_get_json: the parsed object, or ApiError (HTTP status, network
\* failure, invalid JSON, a payload that is no object)
HttpError == [k |-> "error", body |-> <<>>]
HttpObject(body) == [k |-> "object", body |-> body]

WEATHER_ENDPOINT == "https://api.stormglass.io/v2/weather/point"
TIDE_ENDPOINTS == <<"https://api.stormglass.io/v2/tide/extremes/point",
                    "https://api.stormglass.io/v2/tide/extremes">>
GEOCODE_ENDPOINT == "https://maps.googleapis.com/maps/api/geocode/json"
OSM_GEOCODE_ENDPOINT == "https://nominatim.openstreetmap.org/search"

\* A request made is the URL asked and the response received.

-----------------------------------------------------------------------------
(* normalize_hour.  A raw hour is a JSON object: "time" and the raw       *)
(* metric keys, each of which may be missing.                             *)

METRIC_MAP ==
    <<[raw |-> "waveHeight", out |-> "waveHeightM"],
      [raw |-> "swellHeight", out |-> "swellHeightM"],
      [raw |-> "swellPeriod", out |-> "swellPeriodS"],
      [raw |-> "swellDirection", out |-> "swellDirectionDeg"],
      [raw |-> "windSpeed", out |-> "windSpeedMps"],
      [raw |-> "windDirection", out |-> "windDirectionDeg"],
      [raw |-> "gust", out |-> "windGustMps"],
      [raw |-> "waterTemperature", out |-> "waterTemperatureC"]>>

MetricIndex == 1..Len(METRIC_MAP)
OutKeys == {METRIC_MAP[i].out : i \in MetricIndex}
RawKeyOf(out_key) == METRIC_MAP[CHOOSE i \in MetricIndex : METRIC_MAP[i].out = out_key].raw

\* out[out_key] = select_metric_value(hour.get(raw_key), source_order) for
\* every item of METRIC_MAP, dropping the keys of the metrics the hour lacks
NormalizeHourOmitting(h, order) ==
    LET present == {out_key \in OutKeys : RawKeyOf(out_key) \in DOMAIN h}
        vals == [out_key \in present |->
                    select_metric_value(h[RawKeyOf(out_key)], order)]
        failed == {i \in MetricIndex : METRIC_MAP[i].out \in present
                        /\ vals[METRIC_MAP[i].out].k \notin {"none", "num"}}
    IN  IF failed # {}
        THEN [exc |-> vals[METRIC_MAP[CHOOSE i \in failed :
                                \A j \in failed : i <= j].out].k,
              out |-> <<>>]
        ELSE [exc |-> "", out |-> ("time" :> GetOr(h, "time", NoTime)) @@ vals]

\* The normalized hour, or the exception select_metric_value let through
\* (the first one in METRIC_MAP's order).
normalize_hour(h, order) ==
    LET vals == [out_key \in OutKeys |->
                    select_metric_value(GetOr(h, RawKeyOf(out_key), Scalar(None)),
                                        order)]
        failed == {i \in MetricIndex : vals[METRIC_MAP[i].out].k \notin {"none", "num"}}
    IN  IF failed # {}
        THEN [exc |-> vals[METRIC_MAP[CHOOSE i \in failed :
                                \A j \in failed : i <= j].out].k,
              out |-> <<>>]
        ELSE [exc |-> "", out |-> ("time" :> GetOr(h, "time", NoTime)) @@ vals]

\* [normalize_hour(hour, source_order) for hour in weather_hours
\*  if "time" in hour], or the first exception
RECURSIVE NormalizedHours(_, _)
NormalizedHours(raws, order) ==
    IF raws = <<>> THEN [exc |-> "", out |-> <<>>]
    ELSE LET rest == NormalizedHours(SubSeq(raws, 1, Len(raws) - 1), order)
             h == raws[Len(raws)]
         IN  IF rest.exc # "" \/ "time" \notin DOMAIN h THEN rest
             ELSE LET r == normalize_hour(h, order)
                  IN  IF r.exc # "" THEN r
                      ELSE [exc |-> "", out |-> Append(rest.out, r.out)]

-----------------------------------------------------------------------------
(* The command line.  An option's value is the text given, or None when   *)
(* the option is absent.                                                  *)

NotGiven == [k |-> "none", s |-> ""]
Text(s) == [k |-> "text", s |-> s]
\* bool(value): None and the empty text are false
Truthy(x) == x.k = "text" /\ x.s # ""

\* type=float: the coordinate in thousandths of a degree; any other text is
\* an invalid float value
FLOAT_TEXTS == ("50.5" :> 50500) @@ ("0" :> 0)

\* What raised a SystemExit with the given code.
SystemExit(code) == [k |-> "SystemExit", v |-> code]

\* parser.parse_args(argv): -h prints the usage and exits with 0 when argparse
\* reaches it, an invalid float value is an error (exit 2) when argparse
\* reaches it; the model places -h before or after all other options
ParserExit(a) ==
    LET invalid == \E c \in {a.lat, a.lon} : c.k = "text" /\ c.s \notin DOMAIN FLOAT_TEXTS
    IN  IF a.help = "first" THEN SystemExit(0)
        ELSE IF invalid THEN SystemExit(2)
        ELSE IF a.help = "last" THEN SystemExit(0)
        ELSE None

has_location(a) == Truthy(a.location)
has_coords(a) == a.lat.k # "none" \/ a.lon.k # "none"

\* a parse_args that lets one coordinate alone through
ParseArgsPartialCoords(a) ==
    IF ParserExit(a) # None THEN ParserExit(a)
    ELSE IF has_location(a) /\ has_coords(a) THEN SystemExit(2)
    ELSE IF ~has_location(a) /\ ~has_coords(a) THEN SystemExit(2)
    ELSE None

\* parse_args: None when the namespace is returned, else the SystemExit of
\* argparse or of parser.error
parse_args(a) ==
    IF ParserExit(a) # None THEN ParserExit(a)
    ELSE IF has_location(a) /\ has_coords(a) THEN SystemExit(2)
    ELSE IF ~has_location(a) /\ ~has_coords(a) THEN SystemExit(2)
    ELSE IF has_coords(a) /\ (a.lat.k = "none" \/ a.lon.k = "none") THEN SystemExit(2)
    ELSE None

\* parse_sources: the drawn texts hold one name and no comma
parse_sources(x) == IF ~Truthy(x) THEN <<>> ELSE <<x.s>>

\* main's except clauses
ExitCodeOf(exc) ==
    CASE exc.k = "SystemExit" -> IF exc.v \in {0, 2, 3} THEN exc.v ELSE 2
      [] exc.k = "ApiError"    -> 4
      [] exc.k = "ConfigError" -> 3
      [] OTHER                 -> 5

-----------------------------------------------------------------------------
(* mock_payload.  The rows are the eight metrics of hour i = 0..72, in    *)
(* METRIC_MAP's order and in hundredths, as the formulas round them.      *)

MockRows ==
    <<<<90, 100, 800, 25500, 400, 23500, 600, 1050>>, <<98, 100, 825, 25490, 440, 23480, 650, 1053>>, <<106, 99, 849, 25480, 478, 23440, 697, 1057>>,
      <<114, 97, 873, 25450, 513, 23360, 741, 1060>>, <<121, 95, 896, 25420, 543, 23260, 779, 1063>>, <<127, 93, 917, 25370, 568, 23120, 810, 1067>>,
      <<132, 90, 936, 25320, 586, 22960, 833, 1070>>, <<136, 86, 954, 25250, 597, 22780, 846, 1073>>, <<139, 82, 968, 25180, 600, 22580, 850, 1076>>,
      <<140, 78, 980, 25100, 595, 22350, 843, 1079>>, <<140, 74, 990, 25010, 582, 22110, 827, 1082>>, <<138, 70, 996, 24910, 562, 21850, 802, 1085>>,
      <<135, 66, 999, 24810, 535, 21590, 769, 1088>>, <<131, 62, 1000, 24700, 503, 21320, 729, 1091>>, <<126, 58, 997, 24590, 467, 21040, 684, 1094>>,
      <<120, 54, 991, 24470, 428, 20760, 635, 1097>>, <<113, 50, 982, 24350, 388, 20490, 585, 1099>>, <<105, 47, 970, 24230, 349, 20220, 536, 1102>>,
      <<97, 45, 956, 24110, 311, 19960, 489, 1105>>, <<89, 43, 939, 23980, 278, 19710, 447, 1107>>, <<80, 41, 920, 23860, 249, 19480, 411, 1109>>,
      <<72, 40, 899, 23730, 226, 19270, 382, 1111>>, <<65, 40, 876, 23610, 210, 19080, 362, 1113>>, <<58, 40, 853, 23490, 201, 18920, 352, 1115>>,
      <<52, 41, 828, 23380, 201, 18780, 351, 1117>>, <<47, 43, 803, 23260, 208, 18660, 360, 1119>>, <<44, 45, 778, 23160, 223, 18580, 379, 1121>>,
      <<41, 47, 754, 23060, 245, 18530, 407, 1122>>, <<40, 50, 730, 22960, 274, 18500, 442, 1124>>, <<40, 54, 707, 22880, 307, 18510, 484, 1125>>,
      <<42, 58, 686, 22800, 344, 18550, 530, 1126>>, <<45, 62, 666, 22730, 383, 18610, 579, 1127>>, <<49, 66, 649, 22670, 423, 18710, 629, 1128>>,
      <<55, 70, 634, 22610, 462, 18840, 678, 1128>>, <<61, 74, 621, 22570, 499, 18990, 724, 1129>>, <<68, 79, 611, 22540, 531, 19170, 764, 1129>>,
      <<76, 83, 604, 22520, 559, 19370, 798, 1130>>, <<84, 86, 601, 22500, 580, 19590, 825, 1130>>, <<93, 90, 600, 22500, 594, 19820, 842, 1130>>,
      <<101, 93, 603, 22510, 600, 20070, 850, 1130>>, <<109, 95, 608, 22530, 598, 20340, 847, 1130>>, <<116, 97, 617, 22560, 588, 20610, 835, 1129>>,
      <<123, 99, 628, 22600, 571, 20890, 814, 1129>>, <<129, 100, 642, 22640, 547, 21160, 784, 1128>>, <<133, 100, 659, 22700, 517, 21440, 746, 1127>>,
      <<137, 100, 678, 22770, 482, 21710, 703, 1126>>, <<139, 99, 698, 22840, 445, 21970, 656, 1125>>, <<140, 97, 721, 22930, 405, 22220, 606, 1124>>,
      <<139, 95, 744, 23020, 365, 22450, 556, 1123>>, <<138, 93, 768, 23120, 327, 22670, 508, 1121>>, <<134, 90, 793, 23220, 291, 22870, 464, 1120>>,
      <<130, 86, 818, 23330, 260, 23040, 425, 1118>>, <<124, 82, 843, 23440, 234, 23190, 393, 1116>>, <<118, 78, 867, 23560, 215, 23310, 369, 1114>>,
      <<111, 74, 890, 23680, 204, 23400, 355, 1112>>, <<103, 70, 912, 23810, 200, 23460, 350, 1110>>, <<95, 66, 931, 23930, 204, 23500, 355, 1108>>,
      <<86, 61, 949, 24060, 216, 23500, 370, 1105>>, <<78, 57, 965, 24180, 235, 23470, 394, 1103>>, <<70, 54, 977, 24300, 261, 23410, 427, 1101>>,
      <<63, 50, 988, 24430, 293, 23320, 466, 1098>>, <<56, 47, 995, 24540, 328, 23200, 510, 1095>>, <<51, 45, 999, 24660, 367, 23060, 559, 1092>>,
      <<46, 43, 1000, 24770, 407, 22880, 608, 1090>>, <<43, 41, 998, 24870, 446, 22690, 658, 1087>>, <<41, 40, 993, 24970, 484, 22480, 705, 1084>>,
      <<40, 40, 985, 25060, 518, 22240, 748, 1081>>, <<41, 40, 973, 25150, 548, 22000, 785, 1077>>, <<43, 41, 960, 25220, 572, 21740, 815, 1074>>,
      <<46, 43, 943, 25290, 589, 21470, 836, 1071>>, <<51, 45, 925, 25350, 598, 21190, 848, 1068>>, <<57, 47, 904, 25400, 600, 20910, 850, 1065>>,
      <<63, 50, 882, 25440, 593, 20640, 841, 1061>>>>

MockHour(a, i) ==
    ("time" :> iso_z(a + i)) @@
    [out_key \in OutKeys |->
        Num(MockRows[i + 1][CHOOSE j \in MetricIndex : METRIC_MAP[j].out = out_key])]

\* hours = HORIZON_HOURS[horizon] if horizon != "now" else 24;
\* for i in range(hours + 1)
MockHours(a, hz) ==
    [i \in 1..((IF hz # "now" THEN HORIZON_HOURS[hz] ELSE 24) + 1) |-> MockHour(a, i - 1)]

\* ext_count = max(6, int((HORIZON_HOURS.get(horizon, 72) / 6) + 2)); the
\* events are 6 hours apart and alternate, starting high (1.8 m, 0.7 m)
MockExtremes(a, hz) ==
    [i \in 1..Max(6, HORIZON_HOURS[hz] \div 6 + 2) |->
        [time |-> iso_z(a + 6 * (i - 1)),
         type |-> IF i % 2 = 1 THEN "high" ELSE "low",
         heightM |-> IF i % 2 = 1 THEN Num(180) ELSE Num(70)]]

\* lat = args.lat if args.lat is not None else 50.735 (lon: -1.705)
CoordOr(x, default) == IF x.k = "none" THEN default ELSE FLOAT_TEXTS[x.s]

mode(a) == IF Truthy(a.location) THEN "location" ELSE "coordinates"
location_query(a) == IF Truthy(a.location) THEN a.location ELSE NotGiven

\* The report; resolvedName and googlePlaceId, texts that are passed
\* through, are left out of the location.
Report(meta, location, now, wins, trendNow, ext, days) ==
    [meta |-> meta, location |-> location, now |-> now,
     forecast |-> [windows |-> wins],
     tides |-> [trendNow |-> trendNow, extremes |-> ext, byDay |-> days]]

mock_payload(a, hz, args) ==
    LET normalized_hours == MockHours(a, hz)
        ext == MockExtremes(a, hz)
    IN  Report([generatedAt |-> iso_z(a), horizon |-> hz, inputMode |-> mode(args),
                sourcesRequested |-> <<>>, warnings |->
                    <<"Mock mode enabled: no external API calls were made.">>],
               [query |-> location_query(args),
                lat |-> CoordOr(args.lat, 50735), lon |-> CoordOr(args.lon, -1705)],
               nearest_hour(normalized_hours, a).v,
               build_windows(normalized_hours, a, hz),
               tide_trend_now(ext, a), ext, tides_by_day(ext))

-----------------------------------------------------------------------------
(* build_report without --mock.                                           *)

STORMGLASS_API_KEY == "STORMGLASS_API_KEY"
GOOGLE_GEOCODING_API_KEY == "GOOGLE_GEOCODING_API_KEY"

\* An ApiError raised while tide endpoint i was tried.
ApiErrorAt(i) == [k |-> "ApiError", v |-> i]

\* geocode_location / geocode_location_osm: the coordinates of the top
\* result, or ApiError (transport error, bad status, no results, no
\* coordinates); the body holds the top result's coordinates when it has one
Geocoded(response) ==
    IF response.k = "error" \/ "lat" \notin DOMAIN response.body
    THEN Raised("ApiError")
    ELSE None

\* fetch_weather: hours = payload.get("hours", []), ApiError when the
\* request fails or hours is no list
WeatherFetched(response) ==
    IF response.k = "error" THEN [exc |-> Raised("ApiError"), hours |-> <<>>]
    ELSE LET hs == GetOr(response.body, "hours", JList(<<>>))
         IN  IF hs.k # "list" THEN [exc |-> Raised("ApiError"), hours |-> <<>>]
             ELSE [exc |-> None, hours |-> hs.items]

\* one pass of fetch_tides' loop on endpoint i: data = payload.get("data", []),
\* returned when it is a list; ApiError when the request fails or data is no
\* list
TideAttempt(response, i) ==
    IF response.k = "error" THEN [exc |-> ApiErrorAt(i), data |-> <<>>]
    ELSE LET d == GetOr(response.body, "data", JList(<<>>))
         IN  IF d.k # "list" THEN [exc |-> ApiErrorAt(i), data |-> <<>>]
             ELSE [exc |-> None, data |-> d.items]

\* the requests made so far to the tide endpoints
TideRequests == SelectSeq(net, LAMBDA r : InSeq(r.url, TIDE_ENDPOINTS))

\* the location build_report resolved: the geocoder's top result, or the
\* coordinates given
Location(args, requests) ==
    IF Truthy(args.location)
    THEN [query |-> args.location, lat |-> requests[1].response.body.lat,
          lon |-> requests[1].response.body.lon]
    ELSE [query |-> NotGiven, lat |-> FLOAT_TEXTS[args.lat.s],
          lon |-> FLOAT_TEXTS[args.lon.s]]

\* warnings.extend(geo_warnings)
Warnings(requests) ==
    IF requests # <<>> /\ requests[1].url = OSM_GEOCODE_ENDPOINT
    THEN <<"GOOGLE_GEOCODING_API_KEY not set; used OpenStreetMap Nominatim fallback geocoding.">>
    ELSE <<>>

\* build_report from line 522 on, reading the empty list as a report: the
\* check "if not normalized" is missing
AssembledUnchecked(a, args, requests, raws, tide_data) ==
    LET sources == parse_sources(args.source)
        normalized == NormalizedHours(raws, sources)
        ext == normalize_tides(tide_data)
    IN  IF normalized.exc # ""
        THEN [exc |-> Raised(normalized.exc), report |-> <<>>]
        ELSE IF \E i \in 1..Len(normalized.out) : ~Parses(normalized.out[i].time)
        THEN [exc |-> Raised("ValueError"), report |-> <<>>]
        ELSE IF ext.exc # ""
        THEN [exc |-> Raised(ext.exc), report |-> <<>>]
        ELSE [exc |-> None,
              report |->
                Report([generatedAt |-> iso_z(a), horizon |-> args.horizon,
                        inputMode |-> mode(args), sourcesRequested |-> sources,
                        warnings |-> Warnings(requests)],
                       Location(args, requests),
                       IF normalized.out = <<>> THEN None
                       ELSE nearest_hour(normalized.out, a).v,
                       build_windows(normalized.out, a, args.horizon),
                       tide_trend_now(ext.out, a), ext.out, tides_by_day(ext.out))]

\* build_report from line 522 on: the report, or the exception raised
\* (normalize_hour's; ApiError for no hour with a time; parse_time's
\* ValueError in nearest_hour; normalize_tides')
Assembled(a, args, requests, raws, tide_data) ==
    LET sources == parse_sources(args.source)
        normalized == NormalizedHours(raws, sources)
        ext == normalize_tides(tide_data)
    IN  IF normalized.exc # ""
        THEN [exc |-> Raised(normalized.exc), report |-> <<>>]
        ELSE IF normalized.out = <<>>
        THEN [exc |-> Raised("ApiError"), report |-> <<>>]
        ELSE IF \E i \in 1..Len(normalized.out) : ~Parses(normalized.out[i].time)
        THEN [exc |-> Raised("ValueError"), report |-> <<>>]
        ELSE IF ext.exc # ""
        THEN [exc |-> Raised(ext.exc), report |-> <<>>]
        ELSE [exc |-> None,
              report |->
                Report([generatedAt |-> iso_z(a), horizon |-> args.horizon,
                        inputMode |-> mode(args), sourcesRequested |-> sources,
                        warnings |-> Warnings(requests)],
                       Location(args, requests),
                       nearest_hour(normalized.out, a).v,
                       build_windows(normalized.out, a, args.horizon),
                       tide_trend_now(ext.out, a), ext.out, tides_by_day(ext.out))]

-----------------------------------------------------------------------------
(* main: one run of the command, step by step.                            *)

MaxWeather == 2

\* the command lines drawn; the mock runs ask for the two short horizons
\* (25 mock hours)
Arguments ==
    {a \in [location : {NotGiven, Text(""), Text("Highcliffe Beach")},
            lat : {NotGiven, Text("50.5"), Text("0"), Text("north")},
            lon : {NotGiven, Text("50.5"), Text("north")},
            mock : BOOLEAN, horizon : Horizons, output : {"json", "pretty"},
            source : {NotGiven, Text("noaa")}, help : {"no", "first", "last"}] :
        a.mock => a.horizon \in {"now", "24h"}}

\* the raw hours a weather payload may carry: with and without a time, a
\* null time, a metric by source, a metric beyond the float range
RunRawHours ==
    {("time" :> IsoStr(24, 0)) @@
        ("waveHeight" :> Dict(<<[key |-> "noaa", val |-> Num(120)]>>)),
     ("time" :> IsoStr(30, 0)),
     ("waveHeight" :> Scalar(Num(150))),
     ("time" :> NoTime),
     ("time" :> IsoStr(25, 0)) @@ ("gust" :> Scalar(HugeInt))}
RunTideData ==
    {<<>>,
     <<[time |-> IsoStr(20, 0), type |-> "low", height |-> Num(40)],
       [time |-> IsoStr(26, 0), type |-> "high", height |-> Num(130)]>>,
     <<[time |-> IsoStr(26, 0), type |-> "high", height |-> HugeInt]>>}

GeocodeResponses ==
    {HttpError, HttpObject(<<>>), HttpObject([lat |-> 50735, lon |-> -1705])}
WeatherResponses ==
    {HttpError, HttpObject(<<>>), HttpObject([hours |-> NotAList])}
    \cup {HttpObject([hours |-> JList(hs)]) : hs \in SeqsUpTo(RunRawHours, MaxWeather)}
TideResponses ==
    {HttpError, HttpObject(<<>>), HttpObject([data |-> NotAList])}
    \cup {HttpObject([data |-> JList(d)]) : d \in RunTideData}

InitMain ==
    /\ pc = "main"
    /\ anchor \in HourAnchors
    /\ argv \in Arguments
    /\ env \in SUBSET {STORMGLASS_API_KEY, GOOGLE_GEOCODING_API_KEY}
    /\ net = <<>>
    /\ weather_hours = <<>>
    /\ last_error = None
    /\ raised = None
    /\ stdout = <<>>
    /\ exit_code = None
    /\ IdleMetric
    /\ IdleScore
    /\ IdleHours
    /\ IdleTides
    /\ payload = <<>>
    /\ processed = <<>>

\* The exception exc leaves main's try block: the matching except clause
\* gives the exit code.
Raise(exc) ==
    /\ raised' = exc
    /\ exit_code' = ExitCodeOf(exc)
    /\ pc' = "exited"

\* print(json.dumps(report, ...)) or print(to_pretty(report)); return 0
PrintAndReturn(report) ==
    /\ stdout' = <<[k |-> "report", format |-> argv.output, v |-> report]>>
    /\ exit_code' = 0
    /\ pc' = "exited"
    /\ UNCHANGED raised

\* args = parse_args(argv)
ParseArgs ==
    /\ pc = "main"
    /\ LET exc == parse_args(argv)
       IN  IF exc # None
           THEN /\ Raise(exc)
                /\ stdout' = IF exc.v = 0
                             THEN <<[k |-> "usage", format |-> "text", v |-> <<>>]>>
                             ELSE stdout
           ELSE /\ pc' = "build_report"
                /\ UNCHANGED <<raised, stdout, exit_code>>
    /\ UNCHANGED <<mvars, svars, hvars, tvars, payload, processed, anchor, argv, env, net,
                   weather_hours, last_error>>

\* build_report, lines 474-492: if args.mock: return mock_payload(...)
MockReport ==
    /\ pc = "build_report"
    /\ argv.mock
    /\ PrintAndReturn(mock_payload(anchor, argv.horizon, argv))
    /\ UNCHANGED <<mvars, svars, hvars, tvars, payload, processed, anchor, argv, env, net,
                   weather_hours, last_error>>

\* build_report, lines 494-496 and 507-516: the Stormglass key is read,
\* ConfigError when it is missing or empty; the coordinates given are used
\* when no location is
ReadKey ==
    /\ pc = "build_report"
    /\ ~argv.mock
    /\ IF STORMGLASS_API_KEY \notin env
       THEN /\ Raise(Raised("ConfigError"))
            /\ UNCHANGED stdout
       ELSE /\ pc' = IF Truthy(argv.location) THEN "geocode" ELSE "fetch_weather"
            /\ UNCHANGED <<raised, stdout, exit_code>>
    /\ UNCHANGED <<mvars, svars, hvars, tvars, payload, processed, anchor, argv, env, net,
                   weather_hours, last_error>>

\* build_report, lines 498-506: geocode_location with the Google key,
\* geocode_location_osm without it
Geocode ==
    /\ pc = "geocode"
    /\ \E response \in GeocodeResponses :
          /\ net' = Append(net, [url |-> IF GOOGLE_GEOCODING_API_KEY \in env
                                        THEN GEOCODE_ENDPOINT
                                        ELSE OSM_GEOCODE_ENDPOINT,
                                response |-> response])
          /\ IF Geocoded(response) # None
             THEN /\ Raise(Geocoded(response))
                  /\ UNCHANGED stdout
             ELSE /\ pc' = "fetch_weather"
                  /\ UNCHANGED <<raised, stdout, exit_code>>
    /\ UNCHANGED <<mvars, svars, hvars, tvars, payload, processed, anchor, argv, env,
                   weather_hours, last_error>>

\* weather_hours = fetch_weather(...)
FetchWeather ==
    /\ pc = "fetch_weather"
    /\ \E response \in WeatherResponses :
          LET r == WeatherFetched(response)
          IN  /\ net' = Append(net, [url |-> WEATHER_ENDPOINT, response |-> response])
              /\ weather_hours' = r.hours
              /\ IF r.exc # None
                 THEN /\ Raise(r.exc)
                      /\ UNCHANGED stdout
                 ELSE /\ pc' = "fetch_tides"
                      /\ UNCHANGED <<raised, stdout, exit_code>>
    /\ UNCHANGED <<mvars, svars, hvars, tvars, payload, processed, anchor, argv, env,
                   last_error>>

\* fetch_tides: one pass of "for endpoint in TIDE_ENDPOINTS", and after the
\* last pass "if last_error: raise last_error"
FetchTides ==
    /\ pc = "fetch_tides"
    /\ \E response \in TideResponses :
          LET i == Len(TideRequests) + 1
              r == TideAttempt(response, i)
          IN  /\ net' = Append(net, [url |-> TIDE_ENDPOINTS[i], response |-> response])
              /\ IF r.exc = None
                 THEN /\ data' = r.data
                      /\ pc' = "assemble"
                      /\ UNCHANGED <<last_error, raised, stdout, exit_code>>
                 ELSE /\ last_error' = r.exc
                      /\ UNCHANGED <<data, stdout>>
                      /\ IF i < Len(TIDE_ENDPOINTS)
                         THEN /\ pc' = "fetch_tides"
                              /\ UNCHANGED <<raised, exit_code>>
                         ELSE Raise(r.exc)
    /\ UNCHANGED <<mvars, svars, hvars, payload, processed, extremes, trend, byDay, anchor, argv,
                   env, weather_hours>>

\* build_report, lines 522-546, and main's print
Assemble ==
    /\ pc = "assemble"
    /\ LET r == Assembled(anchor, argv, net, weather_hours, data)
       IN  IF r.exc # None
           THEN /\ Raise(r.exc)
                /\ UNCHANGED stdout
           ELSE PrintAndReturn(r.report)
    /\ UNCHANGED <<mvars, svars, hvars, tvars, payload, processed, anchor, argv, env, net,
                   weather_hours, last_error>>

NextMain ==
    ParseArgs \/ MockReport \/ ReadKey \/ Geocode \/ FetchWeather \/ FetchTides
        \/ Assemble

SpecMain == InitMain /\ [][NextMain]_vars

\* Was a report printed?  Which requests failed?
ReportPrinted == \E i \in 1..Len(stdout) : stdout[i].k = "report"
ResponseFailed(response, key) ==
    response.k = "error"
        \/ (key \in DOMAIN response.body /\ response.body[key].k # "list")
WeatherFetchFailed ==
    \E i \in 1..Len(net) :
        net[i].url = WEATHER_ENDPOINT /\ ResponseFailed(net[i].response, "hours")
\* fetch_tides fails when it has no endpoint left: each was asked and failed
TideFetchFailed ==
    \A e \in 1..Len(TIDE_ENDPOINTS) :
        \E i \in 1..Len(net) :
            net[i].url = TIDE_ENDPOINTS[e] /\ ResponseFailed(net[i].response, "data")
\* the weather fetch returned, and none of its hours carries a time
NoHourWithTime ==
    /\ \E i \in 1..Len(net) :
          net[i].url = WEATHER_ENDPOINT /\ ~ResponseFailed(net[i].response, "hours")
    /\ \A i \in 1..Len(weather_hours) : "time" \notin DOMAIN weather_hours[i]
\* a whole report: the five sections, and now an hour with a time
WholeReport(r) ==
    /\ DOMAIN r = {"meta", "location", "now", "forecast", "tides"}
    /\ "time" \in DOMAIN r.now
    /\ DOMAIN r.tides = {"trendNow", "extremes", "byDay"}

\* C11: when the weather fetch fails, the tide fetch fails, or no raw hour
\* carries a time, build_report raises: no report is printed, whole or
\* partial, and the process exits with a non-zero code.  A fetch that fails
\* ends the run at once, and a report that is printed is whole and comes
\* with exit code 0.
C11_AssemblySucceedsOrRaises ==
    /\ (WeatherFetchFailed \/ TideFetchFailed \/ NoHourWithTime) =>
          /\ ~ReportPrinted
          /\ pc = "exited" => (raised # None /\ exit_code # 0)
    /\ (WeatherFetchFailed \/ TideFetchFailed) => pc = "exited"
    /\ ReportPrinted =>
          /\ pc = "exited" /\ raised = None /\ exit_code = 0
          /\ \A i \in 1..Len(stdout) : WholeReport(stdout[i].v)

\* a run that fetched hours, none with a time, and the tides, and ended
\* with ApiError
C11_Witness ==
    /\ pc = "exited"
    /\ NoHourWithTime
    /\ weather_hours # <<>>
    /\ ~TideFetchFailed
    /\ Len(TideRequests) > 0
    /\ raised = Raised("ApiError")
    /\ exit_code = 4
    /\ stdout = <<>>

-----------------------------------------------------------------------------
(* normalize_surf_data.py.  A JSON value read from stdin is an object     *)
(* (its fields a function from the keys it carries) or not.               *)

JDict(f) == [k |-> "object", f |-> f]
JNull == [k |-> "null", f |-> <<>>]

NOW_KEYS ==
    <<"waveHeightM", "swellHeightM", "swellPeriodS", "swellDirectionDeg",
      "windSpeedMps", "windDirectionDeg", "windGustMps", "waterTemperatureC">>
NowKeys == {NOW_KEYS[i] : i \in 1..Len(NOW_KEYS)}

\* d.setdefault(key, default)
SetDefault(d, key, default) == IF key \in DOMAIN d THEN d ELSE d @@ (key :> default)

\* for (key, default) in defaults: d.setdefault(key, default)
RECURSIVE SetDefaults(_, _)
SetDefaults(d, defaults) ==
    IF defaults = <<>> THEN d
    ELSE SetDefaults(SetDefault(d, defaults[1].key, defaults[1].val),
                     SubSeq(defaults, 2, Len(defaults)))

\* In section key of the payload: setdefault for each of the defaults.
InSection(p, key, defaults) ==
    [p EXCEPT ![key] = JDict(SetDefaults(p[key].f, defaults))]

\* normalize(payload): the payload with its defaults set, or AttributeError
\* when a section that is present is no object
normalize(p) ==
    LET sections == SetDefaults(p, [i \in 1..5 |->
                        [key |-> <<"meta", "location", "now", "forecast", "tides">>[i],
                         val |-> JDict(<<>>)]])
        now == InSection(sections, "now",
                         [i \in 1..Len(NOW_KEYS) |-> [key |-> NOW_KEYS[i], val |-> None]])
        meta == InSection(now, "meta", <<[key |-> "warnings", val |-> <<>>]>>)
        forecast == InSection(meta, "forecast", <<[key |-> "windows", val |-> <<>>]>>)
        tides == InSection(forecast, "tides",
                           <<[key |-> "extremes", val |-> <<>>],
                             [key |-> "byDay", val |-> <<>>],
                             [key |-> "trendNow", val |-> "unknown"]>>)
    IN  IF \E key \in {"now", "meta", "forecast", "tides"} : sections[key].k # "object"
        THEN [exc |-> "AttributeError", out |-> <<>>]
        ELSE [exc |-> "", out |-> tides]

-----------------------------------------------------------------------------
(* The output shape: normalize_hour on the hours of a weather payload,    *)
(* the now record made of them, and normalize_surf_data on a payload.     *)

\* the mark of a key that a JSON object lacks
Absent == [k |-> "absent"]
BySource == Dict(<<[key |-> "noaa", val |-> Num(150)]>>)


\* the JSON object of the keys that are present
Present(f) == [key \in {x \in DOMAIN f : f[x].k # "absent"} |-> f[key]]

\* the raw hours drawn: what an hour may hold under "time", under
\* "waveHeight" and under each other metric key
ShapeRawHours ==
    {Present(("time" :> t) @@ ("waveHeight" :> w) @@ o) :
        t \in {Absent, NoTime, IsoStr(24, 0)},
        w \in {Absent, Scalar(None), Scalar(Num(0)), Scalar(HugeInt), BySource,
               Dict(<<>>)},
        o \in [{METRIC_MAP[i].raw : i \in 2..Len(METRIC_MAP)} ->
                  {Absent, Scalar(Num(0)), BySource}]}

\* the now records a payload may carry: each key missing, null or a number
NowRecords == {Present(f) : f \in [NowKeys -> {Absent, None, Num(0)}]}
\* the other sections: missing, empty, or complete
OtherSections ==
    {<<>>,
     [meta |-> JDict(<<>>), location |-> JDict(<<>>), forecast |-> JDict(<<>>),
      tides |-> JDict(<<>>)],
     [meta |-> JDict([warnings |-> <<"Mock mode enabled">>]), location |-> JDict(<<>>),
      forecast |-> JDict([windows |-> <<>>]),
      tides |-> JDict([extremes |-> <<>>, byDay |-> <<>>, trendNow |-> "rising"])]}
Payloads ==
    {JNull} \cup {JDict(o) : o \in OtherSections}
    \cup {JDict(("now" :> JNull) @@ o) : o \in OtherSections}
    \cup {JDict(("now" :> JDict(n)) @@ o) : n \in NowRecords, o \in OtherSections}

InitShape ==
    /\ pc \in {"normalize_hours", "stdin"}
    /\ anchor \in HourAnchors
    /\ source_order \in {<<>>, <<"noaa">>}
    /\ IF pc = "normalize_hours"
       THEN /\ weather_hours \in {<<h>> : h \in ShapeRawHours}
            /\ payload = <<>>
       ELSE /\ weather_hours = <<>>
            /\ source_order = <<>>
            /\ payload \in Payloads
    /\ processed = <<>>
    /\ raw = Scalar(None) /\ result = Idle
    /\ argv = <<>> /\ env = {} /\ net = <<>> /\ last_error = Idle
    /\ raised = None /\ stdout = <<>> /\ exit_code = Idle
    /\ IdleScore
    /\ IdleHours
    /\ IdleTides

\* build_report, lines 523-525: the hours that carry a time, normalized
NormalizeHours ==
    /\ pc = "normalize_hours"
    /\ LET r == NormalizedHours(weather_hours, source_order)
       IN  /\ hours' = r.out
           /\ raised' = IF r.exc # "" THEN Raised(r.exc)
                        ELSE IF r.out = <<>> THEN Raised("ApiError") ELSE None
           /\ pc' = IF raised' # None THEN "raised" ELSE "hours_normalized"
    /\ UNCHANGED <<mvars, svars, tvars, payload, processed, anchor, horizon, current, windows,
                   argv, env, net, weather_hours, last_error, stdout, exit_code>>

\* build_report, lines 527 and 539: "now": nearest_hour(normalized, anchor)
NowRecord ==
    /\ pc = "hours_normalized"
    /\ IF \E i \in 1..Len(hours) : ~Parses(hours[i].time)
       THEN /\ raised' = Raised("ValueError")
            /\ pc' = "raised"
            /\ UNCHANGED current
       ELSE /\ current' = nearest_hour(hours, anchor)
            /\ pc' = "now_done"
            /\ UNCHANGED raised
    /\ UNCHANGED <<mvars, svars, tvars, payload, processed, anchor, hours, horizon, windows,
                   argv, env, net, weather_hours, last_error, stdout, exit_code>>

\* normalize_surf_data.main: exit code 2 for a payload that is no object,
\* 1 when normalize raises, else the normalized payload is printed
NormalizeMain ==
    /\ pc = "stdin"
    /\ IF payload.k # "object"
       THEN /\ exit_code' = 2
            /\ UNCHANGED <<processed, raised>>
       ELSE LET r == normalize(payload.f)
            IN  IF r.exc # ""
                THEN /\ raised' = Raised(r.exc)
                     /\ exit_code' = 1
                     /\ UNCHANGED processed
                ELSE /\ processed' = r.out
                     /\ exit_code' = 0
                     /\ UNCHANGED raised
    /\ pc' = "stdin_done"
    /\ UNCHANGED <<mvars, svars, hvars, tvars, anchor, argv, env, net, weather_hours,
                   last_error, stdout, payload>>

NextShape == NormalizeHours \/ NowRecord \/ NormalizeMain

SpecShape == InitShape /\ [][NextShape]_vars

\* Does the normalized hour h have the shape, and the values, of raw hour r?
\* A metric r lacks, or holds as null, is None in h; a number r holds is
\* the same number in h.
ShapeOf(h, r) ==
    /\ DOMAIN h = {"time"} \cup OutKeys
    /\ \A i \in MetricIndex :
          LET out_key == METRIC_MAP[i].out
              raw_key == METRIC_MAP[i].raw
          IN  /\ h[out_key].k \in {"none", "num"}
              /\ (raw_key \notin DOMAIN r \/ r[raw_key].k = "none") => h[out_key] = None
              /\ (raw_key \in DOMAIN r /\ r[raw_key].k = "num") =>
                    h[out_key] = Num(r[raw_key].v)
TimedRawHours == SelectSeq(weather_hours, LAMBDA r : "time" \in DOMAIN r)

\* C12: every hour normalize_hour produces, the now record made of the
\* normalized hours, and the now record of every payload normalize()
\* processed carry all eight metric keys; a metric that is absent is None,
\* not omitted and not zero, and a value that is present is unchanged.
C12_EightMetricKeysAlways ==
    /\ pc \in {"hours_normalized", "now_done"} =>
          /\ Len(hours) = Len(TimedRawHours)
          /\ \A i \in 1..Len(hours) : ShapeOf(hours[i], TimedRawHours[i])
    /\ pc = "now_done" =>
          \E i \in 1..Len(hours) :
              current.v = hours[i] /\ ShapeOf(current.v, TimedRawHours[i])
    /\ (pc = "stdin_done" /\ exit_code = 0) =>
          LET before == GetOr(payload.f, "now", JDict(<<>>)).f
              after == processed["now"].f
          IN  /\ NowKeys \subseteq DOMAIN after
              /\ \A key \in DOMAIN after :
                    after[key] = IF key \in DOMAIN before THEN before[key] ELSE None

\* an hour that lacks some metrics, holds one as 0 and one by source was
\* normalized and became the now record
C12_Witness ==
    /\ pc = "now_done"
    /\ "swellPeriod" \notin DOMAIN weather_hours[1]
    /\ "waveHeight" \notin DOMAIN weather_hours[1]
    /\ GetOr(weather_hours[1], "gust", Absent) = Scalar(Num(0))
    /\ GetOr(weather_hours[1], "windSpeed", Absent) = BySource
    /\ current.v.swellPeriodS = None
    /\ current.v.windGustMps = Num(0)
    /\ current.v.windSpeedMps = Num(150)

\* In a run of main, every report printed, mock or not, has a now record
\* with the eight metric keys (checked under SpecMain).
EmittedNowHasEightKeys ==
    \A i \in 1..Len(stdout) :
        stdout[i].k = "report" => DOMAIN stdout[i].v.now = {"time"} \cup OutKeys

-----------------------------------------------------------------------------
(* The command line's outcome in mock mode.                               *)

\* Was the option given on the command line?
Given(x) == x.k = "text"
\* --location alone, or both --lat and --lon without --location
LocationAlone == Given(argv.location) /\ ~Given(argv.lat) /\ ~Given(argv.lon)
CoordsAlone == ~Given(argv.location) /\ Given(argv.lat) /\ Given(argv.lon)
\* the same, reading an empty --location as no location
NamedLocationAlone == Truthy(argv.location) /\ ~Given(argv.lat) /\ ~Given(argv.lon)
CoordsWithoutName == ~Truthy(argv.location) /\ Given(argv.lat) /\ Given(argv.lon)
\* argparse accepts the command line: no -h, and coordinates that are numbers
Accepted ==
    /\ argv.help = "no"
    /\ \A c \in {argv.lat, argv.lon} : Given(c) => c.s \in DOMAIN FLOAT_TEXTS

\* C13 as stated: in mock mode main exits with 0 and prints a report exactly
\* when the arguments give --location alone or both coordinates without
\* --location; every other combination exits with 2 and prints no report.
C13_MockExitByArguments ==
    (pc = "exited" /\ argv.mock) =>
        IF LocationAlone \/ CoordsAlone
        THEN exit_code = 0 /\ ReportPrinted
        ELSE exit_code = 2 /\ ~ReportPrinted

\* C13 amended: in mock mode, for a command line argparse accepts, main
\* exits with 0 and prints a report exactly when the arguments give a
\* non-empty --location and no coordinate, or both coordinates and no
\* non-empty --location; every other combination exits with 2 and prints
\* no report.
C13_MockExitByAcceptedArguments ==
    (pc = "exited" /\ argv.mock /\ Accepted) =>
        IF NamedLocationAlone \/ CoordsWithoutName
        THEN exit_code = 0 /\ ReportPrinted
        ELSE exit_code = 2 /\ ~ReportPrinted

\* a mock run with an empty --location and both coordinates printed a report
C13_Witness ==
    /\ pc = "exited"
    /\ argv.mock
    /\ Accepted
    /\ argv.location = Text("")
    /\ Given(argv.lat) /\ Given(argv.lon)
    /\ exit_code = 0
    /\ ReportPrinted

-----------------------------------------------------------------------------
(* fetch_tides: the order of the endpoints.                               *)

\* An endpoint failed: a transport or API error, or a payload without a
\* data list.
WithoutDataList(r) ==
    r.response.k = "error"
        \/ "data" \notin DOMAIN r.response.body
        \/ r.response.body.data.k # "list"
\* The same, with a payload that has no "data" key counted as one with data.
WithBadData(r) ==
    r.response.k = "error"
        \/ ("data" \in DOMAIN r.response.body /\ r.response.body.data.k # "list")

\* The requests to the tide endpoints are in the endpoints' order, one each;
\* the second is made only after the first failed; data returned is the data
\* of the endpoint asked last, which succeeded; when both failed, the error
\* raised is the second endpoint's.
EndpointsInOrder(Failed(_)) ==
    LET reqs == TideRequests
    IN  /\ Len(reqs) <= Len(TIDE_ENDPOINTS)
        /\ \A i \in 1..Len(reqs) : reqs[i].url = TIDE_ENDPOINTS[i]
        /\ Len(reqs) = 2 => Failed(reqs[1])
        /\ pc = "assemble" =>
              /\ ~Failed(reqs[Len(reqs)])
              /\ data = GetOr(reqs[Len(reqs)].response.body, "data",
                            JList(<<>>)).items
        /\ (Len(reqs) = 2 /\ Failed(reqs[2])) =>
              /\ pc = "exited"
              /\ raised = ApiErrorAt(2)
              /\ raised = last_error

\* C14: fetch_tides requests the two tide endpoints in fixed order, at most
\* once each; endpoint 2 is requested only after endpoint 1 failed (a
\* transport or API error, or a payload without a data list); the data of
\* the first endpoint that succeeds is returned; if both fail, the error
\* raised is that of the second endpoint.
C14_TideEndpointsInOrder == EndpointsInOrder(WithoutDataList)

\* With a payload that lacks "data" read as a payload with an empty data
\* list, the endpoints are tried as C14 says.
TideEndpointsInOrderForPresentData == EndpointsInOrder(WithBadData)

-----------------------------------------------------------------------------
(* Credentials.                                                           *)

\* the run got past parse_args (the arguments are valid)
ArgumentsValid == parse_args(argv) = None
\* A run without --mock ends with the configuration error, having made no
\* network request; it ends once, with this error (nothing is retried).
EndsWithConfigError ==
    /\ net = <<>>
    /\ pc = "exited" => (raised = Raised("ConfigError") /\ exit_code = 3 /\ stdout = <<>>)
    /\ pc \in {"main", "build_report", "exited"}
\* A mock run needs no credential and makes no network request.
MockNeedsNothing ==
    (argv.mock /\ ArgumentsValid) =>
        /\ net = <<>>
        /\ pc = "exited" => (exit_code = 0 /\ ReportPrinted)

\* C15: without --mock, when a required credential is missing
\* (STORMGLASS_API_KEY always, GOOGLE_GEOCODING_API_KEY when --location is
\* used), the run ends with a configuration error (exit code 3) before any
\* network request is made, and nothing is retried; with --mock no
\* credential is required and no network request is made.
C15_MissingCredentialIsConfigError ==
    /\ (~argv.mock /\ ArgumentsValid
            /\ (STORMGLASS_API_KEY \notin env
                    \/ (Truthy(argv.location) /\ GOOGLE_GEOCODING_API_KEY \notin env)))
          => EndsWithConfigError
    /\ MockNeedsNothing

\* For the Stormglass key alone the run ends as C15 says.
ConfigErrorForStormglassKey ==
    /\ (~argv.mock /\ ArgumentsValid /\ STORMGLASS_API_KEY \notin env)
          => EndsWithConfigError
    /\ MockNeedsNothing

=============================================================================
